---------------------------- MODULE Spec2Model ----------------------------
(***************************************************************************)
(* Monte Carlo bootstrap analysis of historical trade results              *)
(* (scripts/mc_bootstrap.py): main() prepares the returns column of the    *)
(* trade export, run_monte_carlo_simulation resamples it num_simulations   *)
(* times and stores, per run, the equity curve, the final return and the   *)
(* maximum drawdown; analyze_simulation_results computes the statistics of *)
(* the batch and create_visualizations the drawdown probabilities plotted. *)
(*                                                                         *)
(* The arrays are float64.  A float is modelled as a record                *)
(*   [k |-> "fin", v |-> n]   a finite value n (integers stand for reals)  *)
(*   [k |-> "inf", v |-> s]   s = 1: +inf, s = -1: -inf                    *)
(*   [k |-> "nan", v |-> 0]   NaN                                          *)
(* with IEEE-754 arithmetic and comparisons as numpy applies them.         *)
(***************************************************************************)
EXTENDS Integers, Sequences, FiniteSets, TLC

(***************************************************************************)
(* Bounds of the model.                                                    *)
(***************************************************************************)
\* rows of the trade export
MaxRows == 2
\* largest --simulations argument
MaxSims == 2
\* largest --trades-per-sim argument
MaxTrades == 2
\* largest number of outcomes one execution draws in all its runs
MaxDraws == 4

(***************************************************************************)
(* float64 values and numpy's elementwise operations on them.              *)
(***************************************************************************)
Fin(n) == [k |-> "fin", v |-> n]
Zero == Fin(0)
PosInf == [k |-> "inf", v |-> 1]
NegInf == [k |-> "inf", v |-> -1]
NaN == [k |-> "nan", v |-> 0]

IsNaN(a) == a.k = "nan"

FNeg(a) ==
    IF a.k = "fin" THEN Fin(-a.v)
    ELSE IF a.k = "inf" THEN [k |-> "inf", v |-> -a.v]
    ELSE NaN

\* a + b: NaN propagates, inf + (-inf) is NaN
FAdd(a, b) ==
    IF IsNaN(a) \/ IsNaN(b) THEN NaN
    ELSE IF a.k = "inf" /\ b.k = "inf" THEN (IF a.v = b.v THEN a ELSE NaN)
    ELSE IF a.k = "inf" THEN a
    ELSE IF b.k = "inf" THEN b
    ELSE Fin(a.v + b.v)

\* a - b: inf - inf is NaN
FSub(a, b) == FAdd(a, FNeg(b))

\* a < b: every comparison with NaN is false
FLt(a, b) ==
    IF IsNaN(a) \/ IsNaN(b) THEN FALSE
    ELSE IF a.k = "inf" THEN a.v < 0 /\ b # a
    ELSE IF b.k = "inf" THEN b.v > 0
    ELSE a.v < b.v

\* a <= b
FLe(a, b) == ~IsNaN(a) /\ ~IsNaN(b) /\ (a = b \/ FLt(a, b))

\* np.maximum(a, b): NaN propagates
FMaximum(a, b) ==
    IF IsNaN(a) \/ IsNaN(b) THEN NaN ELSE IF FLt(a, b) THEN b ELSE a

\* np.minimum(a, b), the step of np.min: NaN propagates
FMinimum(a, b) ==
    IF IsNaN(a) \/ IsNaN(b) THEN NaN ELSE IF FLt(b, a) THEN b ELSE a

(***************************************************************************)
(* The trade export read by load_trade_data: one row per trade, with the   *)
(* is_open flag and the returns column (r_multiple when present, else      *)
(* close_profit).  An open trade has no return yet (NaN).                  *)
(***************************************************************************)
ReturnValues ==
    {Fin(-5), Fin(-1), Fin(0), Fin(2), Fin(6), PosInf, NegInf, NaN}

Rows ==
    {[is_open |-> 1, r_multiple |-> NaN]}
        \cup {[is_open |-> 0, r_multiple |-> x] : x \in ReturnValues}

DataFrames == UNION {[1..m -> Rows] : m \in 0..MaxRows}

\* --simulations
SimulationArgs == -1..MaxSims

\* --trades-per-sim: <<>> is None (not given), <<n>> is the integer n
TradesArgs == {<<>>} \cup {<<n>> : n \in -2..MaxTrades}

VARIABLES
    pc,                 \* where main() is
    df,                 \* the loaded trade export
    num_simulations,    \* args.simulations
    trades_arg,         \* args.trades_per_sim
    returns,            \* the prepared returns array
    num_trades_per_sim, \* trades per simulation after the default is applied
    i,                  \* index of the next simulation run
    sim_returns,        \* bootstrap sample of the latest run
    final_returns,      \* per run: final return
    max_drawdowns,      \* per run: maximum drawdown
    equity_curves,      \* per run: equity curve
    writes,             \* per slot: the runs that stored their summary there
    rng_pos,            \* draws taken from the global np.random generator
    result,             \* the tuple run_monte_carlo_simulation returned
    invocation,         \* which execution of the program this is
    prev,               \* arrays returned to the previous execution
    results,            \* the dict analyze_simulation_results returned
    probabilities,      \* the drawdown probabilities create_visualizations plots
    analyzed,           \* what dp.get_analyzed_dataframe returns for the pair
    daily_loss_r,       \* the strategy's daily_loss_r attribute, when it has one
    day_loss,           \* loss, in R, of the trades closed today
    call,               \* the strategy callback called last, with its arguments
    ret,                \* the value that callback returned
    dataframe,          \* the candles the populate_* methods work on
    stage               \* how far the analysis of dataframe has got

vars == <<pc, df, num_simulations, trades_arg, returns, num_trades_per_sim, i,
          sim_returns, final_returns, max_drawdowns, equity_curves, writes,
          rng_pos, result, invocation, prev, results, probabilities,
          analyzed, daily_loss_r, day_loss, call, ret, dataframe, stage>>

\* the state of the Monte Carlo script
script_vars ==
    <<pc, df, num_simulations, trades_arg, returns, num_trades_per_sim, i,
      sim_returns, final_returns, max_drawdowns, equity_curves, writes,
      rng_pos, result, invocation, prev, results, probabilities>>

\* the state of the trading strategy
strategy_vars ==
    <<analyzed, daily_loss_r, day_loss, call, ret, dataframe, stage>>

(***************************************************************************)
(* prepare_returns_data                                                    *)
(***************************************************************************)
\* df[df['is_open'] == 0]
ClosedTrades(d) == SelectSeq(d, LAMBDA r : r.is_open = 0)

\* the returns column of a frame
Column(d) == [j \in 1..Len(d) |-> d[j].r_multiple]

\* Series.dropna(): the NaN entries are removed, +inf and -inf are kept
DropNa(col) == SelectSeq(col, LAMBDA x : ~IsNaN(x))

(***************************************************************************)
(* run_monte_carlo_simulation                                              *)
(***************************************************************************)
\* num_trades_per_sim defaults to len(returns)
DefaultTrades(arg, rets) == IF arg = <<>> THEN Len(rets) ELSE arg[1]

\* np.zeros(n)
Zeros(n) == [j \in 1..n |-> Zero]

\* the index lags one run behind: runs 0 and 1 share slot 0
SlotStale(n) == IF n = 0 THEN 1 ELSE n

\* array index i (from 0) as a sequence index (from 1)
Slot(n) == n + 1

\* np.random.choice(len(a), size=n): the drawn indices, not the elements
ChoiceOfIndices(a, idx) == [j \in 1..Len(idx) |-> Fin(idx[j] - 1)]

\* np.random.choice(a, size=n, replace=True), idx being the n indices the
\* generator produced
Choice(a, idx) == [j \in 1..Len(idx) |-> a[idx[j]]]

\* the index sequences np.random.choice may draw: size n, each in range(len(a))
Draws(a, n) == [1..n -> 1..Len(a)]

RECURSIVE CumSum(_)
\* np.cumsum(s)
CumSum(s) ==
    IF s = <<>> THEN <<>>
    ELSE LET p == CumSum(SubSeq(s, 1, Len(s) - 1))
         IN  Append(p, IF p = <<>> THEN s[1] ELSE FAdd(p[Len(p)], s[Len(s)]))

\* np.concatenate([[0], sim_returns]): the returns are not accumulated
EquityCurveNoCumSum(s) == <<Zero>> \o s

\* np.concatenate([[0], np.cumsum(sim_returns)])
EquityCurve(s) == <<Zero>> \o CumSum(s)

\* equity_curve[0]
FinalReturnFirst(curve) == curve[1]

\* equity_curve[-1]
FinalReturn(curve) == curve[Len(curve)]

\* the curve itself taken for its running maximum
MaximumNotAccumulated(c) == c

RECURSIVE MaximumAccumulate(_)
\* np.maximum.accumulate(c)
MaximumAccumulate(c) ==
    IF c = <<>> THEN <<>>
    ELSE LET p == MaximumAccumulate(SubSeq(c, 1, Len(c) - 1))
         IN  Append(p, IF p = <<>> THEN c[1] ELSE FMaximum(p[Len(p)], c[Len(c)]))

\* equity_curve - running_max
Drawdown(c, rm) == [j \in 1..Len(c) |-> FSub(c[j], rm[j])]

RECURSIVE NpMin(_)
\* np.min(d) of a non-empty array
NpMin(d) ==
    IF Len(d) = 1 THEN d[1]
    ELSE FMinimum(NpMin(SubSeq(d, 1, Len(d) - 1)), d[Len(d)])

\* the maximum drawdown of an equity curve
MaxDrawdown(c) == NpMin(Drawdown(c, MaximumAccumulate(c)))

(***************************************************************************)
(* analyze_simulation_results.  A statistic is a float64 whose finite      *)
(* values are exact fractions v / d in lowest terms (d > 0):               *)
(* [k |-> "fin", v |-> v, d |-> d]; +inf, -inf and NaN carry d = 1.        *)
(***************************************************************************)
Abs(n) == IF n < 0 THEN -n ELSE n

Min(a, b) == IF a < b THEN a ELSE b

RECURSIVE GCD(_, _)
GCD(a, b) == IF b = 0 THEN a ELSE GCD(b, a % b)

\* the fraction n / d, d > 0, in lowest terms
QFin(n, d) ==
    LET g == GCD(Abs(n), d)
    IN  [k |-> "fin", v |-> n \div g, d |-> d \div g]

QInf(sgn) == [k |-> "inf", v |-> sgn, d |-> 1]

QNaN == [k |-> "nan", v |-> 0, d |-> 1]

\* an array element as a statistic
Q(a) == IF a.k = "fin" THEN QFin(a.v, 1) ELSE [k |-> a.k, v |-> a.v, d |-> 1]

\* the array as statistics
QArray(a) == [j \in 1..Len(a) |-> Q(a[j])]

\* -1, 0 or 1
Sign(a) == IF a.v < 0 THEN -1 ELSE IF a.v > 0 THEN 1 ELSE 0

QNeg(a) ==
    IF a.k = "fin" THEN QFin(-a.v, a.d)
    ELSE IF a.k = "inf" THEN QInf(-a.v)
    ELSE QNaN

\* a + b
QAdd(a, b) ==
    IF IsNaN(a) \/ IsNaN(b) THEN QNaN
    ELSE IF a.k = "inf" /\ b.k = "inf" THEN (IF a.v = b.v THEN a ELSE QNaN)
    ELSE IF a.k = "inf" THEN a
    ELSE IF b.k = "inf" THEN b
    ELSE QFin(a.v * b.d + b.v * a.d, a.d * b.d)

\* a - b
QSub(a, b) == QAdd(a, QNeg(b))

\* a * b: inf * 0 is NaN
QMul(a, b) ==
    IF IsNaN(a) \/ IsNaN(b) THEN QNaN
    ELSE IF a.k = "inf" \/ b.k = "inf"
         THEN (IF Sign(a) * Sign(b) = 0 THEN QNaN ELSE QInf(Sign(a) * Sign(b)))
    ELSE QFin(a.v * b.v, a.d * b.d)

\* a / n for a count n >= 0: 0 / 0 is NaN, x / 0 is inf with the sign of x
QDivCount(a, n) ==
    IF IsNaN(a) THEN QNaN
    ELSE IF n = 0 THEN (IF Sign(a) = 0 THEN QNaN ELSE QInf(Sign(a)))
    ELSE IF a.k = "inf" THEN a
    ELSE QFin(a.v, a.d * n)

\* a < b: false when either is NaN
QLt(a, b) ==
    IF IsNaN(a) \/ IsNaN(b) THEN FALSE
    ELSE IF a.k = "inf" THEN a.v < 0 /\ b # a
    ELSE IF b.k = "inf" THEN b.v > 0
    ELSE a.v * b.d < b.v * a.d

\* a <= b: false when either is NaN
QLe(a, b) == ~IsNaN(a) /\ ~IsNaN(b) /\ (a = b \/ QLt(a, b))

RECURSIVE QSum(_)
\* np.add.reduce(a)
QSum(a) ==
    IF a = <<>> THEN QFin(0, 1)
    ELSE QAdd(QSum(SubSeq(a, 1, Len(a) - 1)), a[Len(a)])

\* np.mean(a): NaN for an empty array
Mean(a) == QDivCount(QSum(a), Len(a))

\* np.mean(mask) * 100 for a boolean mask with count true elements among n
Percent(count, n) == QMul(QDivCount(QFin(count, 1), n), QFin(100, 1))

RECURSIVE Insert(_, _)
\* x put into the sorted array s: ascending, NaN after every number
Insert(s, x) ==
    IF s = <<>> THEN <<x>>
    ELSE IF ~IsNaN(x) /\ (IsNaN(s[1]) \/ QLt(x, s[1])) THEN <<x>> \o s
    ELSE <<s[1]>> \o Insert(Tail(s), x)

RECURSIVE Sort(_)
\* np.sort(a)
Sort(a) ==
    IF a = <<>> THEN <<>>
    ELSE Insert(Sort(SubSeq(a, 1, Len(a) - 1)), a[Len(a)])

\* numpy's _lerp(a, b, t) for t = tnum / 100
Lerp(a, b, tnum) ==
    LET diff == QSub(b, a)
    IN  IF 2 * tnum < 100
        THEN QAdd(a, QMul(diff, QFin(tnum, 100)))
        ELSE QSub(b, QMul(diff, QFin(100 - tnum, 100)))

\* np.percentile(a, p) of a non-empty array, 0 <= p < 100: linear
\* interpolation between the order statistics around index (n - 1) * p / 100;
\* NaN when the array holds a NaN
Percentile(a, p) ==
    LET n == Len(a)
        s == Sort(a)
        lo == ((n - 1) * p) \div 100
        tnum == ((n - 1) * p) % 100
    IN  IF IsNaN(s[n]) THEN QNaN
        ELSE Lerp(s[lo + 1], s[Min(lo + 2, n)], tnum)

\* np.median(a) of a non-empty array
Median(a) ==
    LET n == Len(a)
        s == Sort(a)
    IN  IF IsNaN(s[n]) THEN QNaN
        ELSE IF n % 2 = 1 THEN s[(n + 1) \div 2]
        ELSE QDivCount(QAdd(s[n \div 2], s[n \div 2 + 1]), 2)

\* np.sqrt of a variance: kept symbolic for a finite one
Sqrt(a) == IF a.k = "fin" THEN [k |-> "sqrt", v |-> a.v, d |-> a.d] ELSE a

\* np.std(a)
Std(a) ==
    LET m == Mean(a)
    IN  Sqrt(Mean([j \in 1..Len(a) |-> QMul(QSub(a[j], m), QSub(a[j], m))]))

(***************************************************************************)
(* The program: main() on one trade export and one set of arguments.       *)
(***************************************************************************)
\* None, for an optional float or a missing attribute
None == [k |-> "None", v |-> 0, d |-> 1]

\* no strategy is loaded while the script runs
StrategyIdle ==
    /\ analyzed = [kind |-> "None", rows |-> <<>>]
    /\ daily_loss_r = None
    /\ day_loss = 0
    /\ call = [name |-> "none"]
    /\ ret = None
    /\ dataframe = <<>>
    /\ stage = "idle"

\* the executions explored draw at most MaxDraws outcomes
WithinDraws(d, sims, arg) ==
    sims * DefaultTrades(arg, DropNa(Column(ClosedTrades(d)))) <= MaxDraws

Init ==
    /\ pc = "start"
    /\ df \in DataFrames
    /\ num_simulations \in SimulationArgs
    /\ trades_arg \in TradesArgs
    /\ WithinDraws(df, num_simulations, trades_arg)
    /\ returns = <<>>
    /\ num_trades_per_sim = 0
    /\ i = 0
    /\ sim_returns = <<>>
    /\ final_returns = <<>>
    /\ max_drawdowns = <<>>
    /\ equity_curves = <<>>
    /\ writes = <<>>
    /\ rng_pos = 0
    /\ result = <<>>
    /\ invocation = 1
    /\ prev = <<>>
    /\ results = <<>>
    /\ probabilities = <<>>
    /\ StrategyIdle

\* an exception reaches main(), which logs it and exits with status 1
Raise == pc' = "failed"

\* prepare_returns_data(df): ValueError when there is no closed trade or no
\* return is left after dropna()
PrepareReturnsData ==
    /\ pc = "start"
    /\ LET closed == ClosedTrades(df)
           rets == DropNa(Column(closed))
       IN  IF Len(closed) = 0 \/ Len(rets) = 0
           THEN Raise /\ UNCHANGED returns
           ELSE pc' = "prepared" /\ returns' = rets
    /\ UNCHANGED <<strategy_vars, df, num_simulations, trades_arg,
                   num_trades_per_sim, i,
                   sim_returns, final_returns, max_drawdowns, equity_curves,
                   writes, rng_pos, result, invocation, prev,
                   results, probabilities>>

\* run_monte_carlo_simulation up to its loop: the default of
\* num_trades_per_sim and the three np.zeros allocations, which raise
\* ValueError on a negative dimension
BeginSimulation ==
    /\ pc = "prepared"
    /\ LET n == DefaultTrades(trades_arg, returns)
       IN  /\ num_trades_per_sim' = n
           /\ IF num_simulations < 0 \/ n + 1 < 0
              THEN /\ Raise
                   /\ UNCHANGED <<final_returns, max_drawdowns, equity_curves,
                                  writes>>
              ELSE /\ pc' = "loop"
                   /\ final_returns' = Zeros(num_simulations)
                   /\ max_drawdowns' = Zeros(num_simulations)
                   /\ equity_curves' =
                          [r \in 1..num_simulations |-> Zeros(n + 1)]
                   /\ writes' = [r \in 1..num_simulations |-> <<>>]
    /\ i' = 0
    /\ UNCHANGED <<strategy_vars, df, num_simulations, trades_arg, returns,
                   sim_returns,
                   rng_pos, result, invocation, prev,
                   results, probabilities>>

\* one iteration of the loop, run i: the bootstrap sample from the global
\* generator, its equity curve, final return and maximum drawdown, stored at
\* index i.  np.random.choice raises ValueError on a negative size.  The
\* generator is np.random's global one, never seeded by the script: what it
\* yields is any index sequence, and each draw advances it (rng_pos).
SimulationRun ==
    /\ pc = "loop"
    /\ i < num_simulations
    /\ IF num_trades_per_sim < 0
       THEN /\ Raise
            /\ UNCHANGED <<i, sim_returns, final_returns, max_drawdowns,
                           equity_curves, writes, rng_pos>>
       ELSE \E idx \in Draws(returns, num_trades_per_sim) :
                LET sample == Choice(returns, idx)
                    equity_curve == EquityCurve(sample)
                IN  /\ sim_returns' = sample
                    /\ rng_pos' = rng_pos + Len(idx)
                    /\ equity_curves' =
                           [equity_curves EXCEPT ![Slot(i)] = equity_curve]
                    /\ final_returns' =
                           [final_returns EXCEPT
                                ![Slot(i)] = FinalReturn(equity_curve)]
                    /\ max_drawdowns' =
                           [max_drawdowns EXCEPT
                                ![Slot(i)] = MaxDrawdown(equity_curve)]
                    /\ writes' = [writes EXCEPT ![Slot(i)] = Append(@, i)]
                    /\ i' = i + 1
                    /\ pc' = "loop"
    /\ UNCHANGED <<strategy_vars, df, num_simulations, trades_arg, returns,
                   num_trades_per_sim, result, invocation, prev,
                   results, probabilities>>

\* the loop is over: return final_returns, max_drawdowns, equity_curves
ReturnBatch ==
    /\ pc = "loop"
    /\ i >= num_simulations
    /\ pc' = "simulated"
    /\ result' = [final_returns |-> final_returns,
                  max_drawdowns |-> max_drawdowns,
                  equity_curves |-> equity_curves]
    /\ UNCHANGED <<strategy_vars, df, num_simulations, trades_arg, returns,
                   num_trades_per_sim, i, sim_returns, final_returns,
                   max_drawdowns, equity_curves, writes, rng_pos, invocation,
                   prev, results, probabilities>>

\* a return of exactly 0 counted as positive
ProbNonNegativeReturn(fr) ==
    Percent(Len(SelectSeq(fr, LAMBDA x : QLe(QFin(0, 1), x))), Len(fr))

\* np.mean(final_returns > 0) * 100
ProbPositiveReturn(fr) ==
    Percent(Len(SelectSeq(fr, LAMBDA x : QLt(QFin(0, 1), x))), Len(fr))

\* np.mean(max_drawdowns <= threshold) * 100
ProbAtOrBelow(md, threshold) ==
    Percent(Len(SelectSeq(md, LAMBDA x : QLe(x, QFin(threshold, 1)))), Len(md))

\* the comparison turned round: drawdowns shallower than the threshold
ProbAbove(md, threshold) ==
    Percent(Len(SelectSeq(md, LAMBDA x : QLt(QFin(threshold, 1), x))), Len(md))

\* np.mean(max_drawdowns < threshold) * 100
ProbBelow(md, threshold) ==
    Percent(Len(SelectSeq(md, LAMBDA x : QLt(x, QFin(threshold, 1)))), Len(md))

\* results['final_return_5th_percentile']
FinalReturn5thPercentile(fr) == Percentile(fr, 5)

\* np.percentile(final_returns, 1)
Var1Percent(fr) == Percentile(fr, 1)

\* the level of var_1_percent used for var_5_percent
Var5PercentAtOne(fr) == Percentile(fr, 1)

\* results['var_5_percent']
Var5Percent(fr) == Percentile(fr, 5)

\* final_returns[final_returns <= var_5]
TailReturns(fr, var_5) == SelectSeq(fr, LAMBDA x : QLe(x, var_5))

\* np.mean of the tail: NaN when the tail is empty
ExpectedShortfall(fr, var_5) == Mean(TailReturns(fr, var_5))

\* the three keys written only when np.mean(returns) > 0
RiskMetrics(md, rets) ==
    IF QLt(QFin(0, 1), Mean(rets))
    THEN [prob_drawdown_gt_3R |-> ProbBelow(md, -3),
          prob_drawdown_gt_5R |-> ProbBelow(md, -5),
          prob_drawdown_gt_10R |-> ProbBelow(md, -10)]
    ELSE <<>>

\* the dict the try block builds from non-empty arrays
Statistics(fr, md, rets) ==
    [final_return_mean |-> Mean(fr),
     final_return_median |-> Median(fr),
     final_return_std |-> Std(fr),
     final_return_5th_percentile |-> FinalReturn5thPercentile(fr),
     final_return_95th_percentile |-> Percentile(fr, 95),
     prob_positive_return |-> ProbPositiveReturn(fr),
     max_drawdown_mean |-> Mean(md),
     max_drawdown_median |-> Median(md),
     max_drawdown_std |-> Std(md),
     max_drawdown_5th_percentile |-> Percentile(md, 5),
     max_drawdown_95th_percentile |-> Percentile(md, 95),
     var_5_percent |-> Var5Percent(fr),
     var_1_percent |-> Var1Percent(fr),
     expected_shortfall_5_percent |-> ExpectedShortfall(fr, Var5Percent(fr))]
    @@ RiskMetrics(md, rets)

\* np.percentile raises on an empty array: no order statistic to index
AnalysisRaises(fr) == Len(fr) = 0

\* results = analyze_simulation_results(final_returns, max_drawdowns,
\* returns): an exception inside is logged and {} is returned
AnalyzeSimulationResults ==
    /\ pc = "simulated"
    /\ pc' = "analyzed"
    /\ results' = IF AnalysisRaises(QArray(result.final_returns))
                  THEN <<>>
                  ELSE Statistics(QArray(result.final_returns),
                                  QArray(result.max_drawdowns),
                                  QArray(returns))
    /\ UNCHANGED <<strategy_vars, df, num_simulations, trades_arg, returns,
                   num_trades_per_sim, i, sim_returns, final_returns,
                   max_drawdowns, equity_curves, writes, rng_pos, result,
                   invocation, prev, probabilities>>

\* results.get(key, 0) as main logs it
Reported(key) == IF key \in DOMAIN results THEN results[key] ELSE QFin(0, 1)

HasKind(a, kind) == \E j \in 1..Len(a) : a[j].k = kind

\* Axes.hist raises on an infinite value, np.percentile(axis=0) on an empty
\* batch
PlotRaises(fr, md) ==
    \/ Len(fr) = 0
    \/ HasKind(fr, "inf")
    \/ HasKind(md, "inf")

\* np.arange(-1, -20, -1)
DrawdownThresholds == [j \in 1..19 |-> -j]

\* create_visualizations unless --no-plots: an exception inside is logged
\* and the function returns
CreateVisualizations ==
    /\ pc = "analyzed"
    /\ pc' = "done"
    /\ \E no_plots \in BOOLEAN :
        IF no_plots \/ PlotRaises(result.final_returns, result.max_drawdowns)
        THEN UNCHANGED <<rng_pos, probabilities>>
        ELSE /\ rng_pos' = rng_pos + Min(100, Len(result.equity_curves))
             /\ probabilities' =
                    [j \in DOMAIN DrawdownThresholds |->
                        ProbAtOrBelow(QArray(result.max_drawdowns),
                                      DrawdownThresholds[j])]
    /\ UNCHANGED <<strategy_vars, df, num_simulations, trades_arg, returns,
                   num_trades_per_sim, i, sim_returns, final_returns,
                   max_drawdowns, equity_curves, writes, result,
                   invocation, prev, results>>

Next ==
    \/ PrepareReturnsData
    \/ BeginSimulation
    \/ SimulationRun
    \/ ReturnBatch
    \/ AnalyzeSimulationResults
    \/ CreateVisualizations

Spec == Init /\ [][Next]_vars

(***************************************************************************)
(* The program executed a second time on the same trade export with the    *)
(* same arguments.  The script never seeds np.random: every execution      *)
(* starts its global generator from fresh operating-system entropy.        *)
(***************************************************************************)
Rerun ==
    /\ pc = "done"
    /\ invocation = 1
    /\ invocation' = 2
    /\ prev' = result
    /\ pc' = "start"
    /\ returns' = <<>>
    /\ num_trades_per_sim' = 0
    /\ i' = 0
    /\ sim_returns' = <<>>
    /\ final_returns' = <<>>
    /\ max_drawdowns' = <<>>
    /\ equity_curves' = <<>>
    /\ writes' = <<>>
    /\ rng_pos' = 0
    /\ result' = <<>>
    /\ results' = <<>>
    /\ probabilities' = <<>>
    /\ UNCHANGED <<strategy_vars, df, num_simulations, trades_arg>>

NextRerun == Next \/ Rerun

SpecRerun == Init /\ [][NextRerun]_vars

(***************************************************************************)
(* Properties.                                                             *)
(***************************************************************************)
\* a run has been stored: the latest one is run i - 1, in slot i
RunStored == pc \in {"loop", "simulated"} /\ i >= 1

\* every array element of a sequence is a finite number
AllFinite(s) == \A j \in 1..Len(s) : s[j].k = "fin"

RECURSIVE SumOf(_)
\* the arithmetic sum of a sequence, from the left
SumOf(s) ==
    IF s = <<>> THEN Zero
    ELSE FAdd(SumOf(SubSeq(s, 1, Len(s) - 1)), s[Len(s)])

\* C1: the equity curve stored for every run has num_trades_per_sim + 1
\* entries and starts at 0, and each further entry of the latest run's curve
\* is the entry before it plus the sampled outcome of that step.
C1_EquityCurveCumulative ==
    pc \in {"loop", "simulated"} =>
        /\ \A r \in 1..i :
               /\ Len(equity_curves[r]) = num_trades_per_sim + 1
               /\ equity_curves[r][1] = Zero
        /\ i >= 1 =>
               \A j \in 1..num_trades_per_sim :
                   equity_curves[i][j + 1] =
                       FAdd(equity_curves[i][j], sim_returns[j])

\* a run of two trades, +2 then -1, stored as the second run of a batch
C1_Witness ==
    /\ pc = "simulated"
    /\ i = 2
    /\ sim_returns = <<Fin(2), Fin(-1)>>
    /\ equity_curves[2] = <<Zero, Fin(2), Fin(1)>>

\* C2: the final return recorded for a run is the last entry of that run's
\* equity curve and is the sum of the run's sampled outcomes.
C2_FinalReturnIsSum ==
    RunStored =>
        /\ final_returns[i] = equity_curves[i][num_trades_per_sim + 1]
        /\ final_returns[i] = SumOf(sim_returns)

\* a run of two trades, -1 then +2, ends at +1
C2_Witness ==
    /\ RunStored
    /\ sim_returns = <<Fin(-1), Fin(2)>>
    /\ final_returns[i] = Fin(1)

\* C3: every recorded maximum drawdown is <= 0, whatever the outcome set and
\* the number of trades.
C3_MaxDrawdownNonPositive ==
    pc \in {"loop", "simulated"} =>
        \A r \in 1..Len(max_drawdowns) : FLe(max_drawdowns[r], Zero)

\* the same for outcome sets of finite values only
MaxDrawdownNonPositiveWhenFinite ==
    (pc \in {"loop", "simulated"} /\ AllFinite(returns)) =>
        \A r \in 1..Len(max_drawdowns) : FLe(max_drawdowns[r], Zero)

\* C4: two executions on the same outcome set with the same num_simulations
\* and trades per simulation return the same final returns and the same
\* maximum drawdowns.
C4_Deterministic ==
    (invocation = 2 /\ pc = "simulated") =>
        /\ result.final_returns = prev.final_returns
        /\ result.max_drawdowns = prev.max_drawdowns

\* C5: a run draws from a generator of its own: no run reads or advances
\* generator state shared with the other runs.
C5_NoSharedGenerator ==
    [][(pc = "loop" /\ pc' = "loop") => rng_pos' = rng_pos]_vars

\* C6: the sample of a run has exactly N values, each of them an element of
\* the outcome set, N being --trades-per-sim when given and the size of the
\* outcome set otherwise.
C6_SampleFromOutcomeSet ==
    RunStored =>
        /\ Len(sim_returns) =
               (IF trades_arg = <<>> THEN Len(returns) ELSE trades_arg[1])
        /\ \A j \in 1..Len(sim_returns) :
               \E m \in 1..Len(returns) : sim_returns[j] = returns[m]

\* a sample that repeats one element of a two-element outcome set, its
\* length defaulted to the size of the set
C6_Witness ==
    /\ RunStored
    /\ trades_arg = <<>>
    /\ returns = <<Fin(-1), Fin(2)>>
    /\ sim_returns = <<Fin(2), Fin(2)>>

\* the configuration is invalid: no outcome, or a non-positive
\* --trades-per-sim or --simulations
InvalidInput ==
    \/ DropNa(Column(ClosedTrades(df))) = <<>>
    \/ trades_arg # <<>> /\ trades_arg[1] <= 0
    \/ num_simulations <= 0

\* C7: on an invalid configuration the simulation fails before any run is
\* sampled and returns nothing.
C7_InvalidInputRejected ==
    InvalidInput => (pc # "simulated" /\ i = 0 /\ rng_pos = 0)

\* C8: once the returns are accepted, every closed trade's return is finite
\* and each of them is in the returns array: a trade export holding a
\* non-finite return is rejected, never filtered.
C8_NonFiniteRejected ==
    returns # <<>> =>
        /\ AllFinite(Column(ClosedTrades(df)))
        /\ Len(returns) = Len(ClosedTrades(df))

\* the three arrays of the returned batch have one slot per requested run
BatchLengths ==
    \A f \in DOMAIN result : Len(result[f]) = num_simulations

AllPositive(s) == \A m \in 1..Len(s) : FLt(Zero, s[m])

\* C10: when every value of the outcome set is strictly positive, every
\* sampled outcome of a run is a win (win rate 1) and the run's maximum
\* drawdown is 0.
C10_AllPositiveNoDrawdown ==
    (RunStored /\ AllPositive(returns)) =>
        /\ AllPositive(sim_returns)
        /\ max_drawdowns[i] = Zero

\* the same for outcome sets of finite values only
AllPositiveNoDrawdownWhenFinite ==
    (RunStored /\ AllPositive(returns) /\ AllFinite(returns)) =>
        /\ AllPositive(sim_returns)
        /\ max_drawdowns[i] = Zero

(***************************************************************************)
(* The statistics of a batch.                                              *)
(***************************************************************************)
\* main has the dict analyze_simulation_results returned
Analyzed == pc \in {"analyzed", "done"}

\* every outcome is the finite value n
AllEqual(s, n) == \A j \in 1..Len(s) : s[j] = Fin(n)

\* C11: when every value of the outcome set is -1, every run has
\* max_drawdown = -N and the prob_positive_return main reports is 0, for any
\* N and any K (for K = 0 the dict is empty and main logs the default 0).
C11_AllLosses ==
    AllEqual(returns, -1) =>
        /\ RunStored =>
            \A r \in 1..i : max_drawdowns[r] = Fin(-num_trades_per_sim)
        /\ Analyzed => Reported("prob_positive_return") = QFin(0, 1)

C11_Witness ==
    /\ Analyzed
    /\ Len(returns) >= 1
    /\ AllEqual(returns, -1)
    /\ num_simulations = 2
    /\ num_trades_per_sim = 2
    /\ "prob_positive_return" \in DOMAIN results
    /\ result.max_drawdowns = <<Fin(-2), Fin(-2)>>


\* number of runs of the returned batch whose final return is above 0
PositiveRuns ==
    Cardinality({r \in 1..Len(result.final_returns) :
                    FLt(Zero, result.final_returns[r])})

RunsBelow(t) ==
    Cardinality({r \in 1..Len(result.max_drawdowns) :
                    FLt(result.max_drawdowns[r], Fin(t))})

\* the probability the given definition yields for threshold t
ProbExceed(t) == QFin(RunsBelow(t), num_simulations)

\* C13: the statistics hold, for each threshold t in -3, -5, -10, the value
\* count(max_drawdown < t) / K, and the drawdown probability plot shows that
\* same value at each of its thresholds.
C13_ProbExceed ==
    /\ (Analyzed /\ num_simulations >= 1) =>
        /\ "prob_drawdown_gt_3R" \in DOMAIN results
        /\ results.prob_drawdown_gt_3R = ProbExceed(-3)
        /\ results.prob_drawdown_gt_5R = ProbExceed(-5)
        /\ results.prob_drawdown_gt_10R = ProbExceed(-10)
    /\ (pc = "done" /\ probabilities # <<>>) =>
        \A j \in DOMAIN DrawdownThresholds :
            probabilities[j] = ProbExceed(DrawdownThresholds[j])

\* The last part of C13 alone, for finite outcomes: the statistics and the
\* plot show the same probability at the thresholds -3, -5 and -10.
PlotAgreesWithStatistics ==
    (pc = "done" /\ probabilities # <<>> /\ AllFinite(returns)
        /\ "prob_drawdown_gt_3R" \in DOMAIN results) =>
        /\ probabilities[3] = results.prob_drawdown_gt_3R
        /\ probabilities[5] = results.prob_drawdown_gt_5R
        /\ probabilities[10] = results.prob_drawdown_gt_10R


\* C14: whenever the three threshold probabilities are reported,
\* prob_drawdown_gt_3R >= prob_drawdown_gt_5R >= prob_drawdown_gt_10R, and
\* the probabilities plotted never rise as the threshold deepens.
C14_ThresholdMonotone ==
    /\ (Analyzed /\ "prob_drawdown_gt_3R" \in DOMAIN results) =>
        /\ QLe(results.prob_drawdown_gt_5R, results.prob_drawdown_gt_3R)
        /\ QLe(results.prob_drawdown_gt_10R, results.prob_drawdown_gt_5R)
    /\ \A j, k \in DOMAIN probabilities :
        j < k => QLe(probabilities[k], probabilities[j])

C14_Witness ==
    /\ Analyzed
    /\ "prob_drawdown_gt_3R" \in DOMAIN results
    /\ QLt(results.prob_drawdown_gt_10R, results.prob_drawdown_gt_5R)
    /\ QLt(results.prob_drawdown_gt_5R, results.prob_drawdown_gt_3R)


\* P5 <= P25 <= P50 <= P75 <= P95 for the array a, where p5, p50 and p95
\* are the values the dict holds
Ordered(a, p5, p50, p95) ==
    /\ QLe(p5, Percentile(a, 25))
    /\ QLe(Percentile(a, 25), p50)
    /\ QLe(p50, Percentile(a, 75))
    /\ QLe(Percentile(a, 75), p95)

PercentilesOrdered ==
    /\ Ordered(QArray(result.final_returns),
               results.final_return_5th_percentile,
               results.final_return_median,
               results.final_return_95th_percentile)
    /\ Ordered(QArray(result.max_drawdowns),
               results.max_drawdown_5th_percentile,
               results.max_drawdown_median,
               results.max_drawdown_95th_percentile)

\* C15: for a batch of K > 1 runs the percentiles of the final returns and
\* of the maximum drawdowns satisfy P5 <= P25 <= P50 <= P75 <= P95.
C15_PercentilesOrdered ==
    (Analyzed /\ num_simulations > 1) => PercentilesOrdered

\* the same for outcome sets of finite values only
PercentilesOrderedWhenFinite ==
    (Analyzed /\ num_simulations > 1 /\ AllFinite(returns)) =>
        PercentilesOrdered


\* C16: the var_5_percent reported equals the final_return_5th_percentile
\* reported, for every batch (NaN when both percentiles are NaN; for K = 0
\* neither key exists and main logs the default 0 for both).
C16_VarIsPercentile ==
    Analyzed =>
        /\ ("var_5_percent" \in DOMAIN results)
            = ("final_return_5th_percentile" \in DOMAIN results)
        /\ Reported("var_5_percent") = Reported("final_return_5th_percentile")

C16_Witness ==
    /\ Analyzed
    /\ num_simulations = 2
    /\ result.final_returns = <<Fin(-5), Fin(2)>>
    /\ results.var_5_percent # results.var_1_percent
    /\ results.var_5_percent = results.final_return_5th_percentile


\* the final returns at or below the var_5_percent reported
ReportedTail ==
    SelectSeq(QArray(result.final_returns),
              LAMBDA x : QLe(x, results.var_5_percent))

ShortfallDefined ==
    /\ ReportedTail # <<>> =>
        results.expected_shortfall_5_percent = Mean(ReportedTail)
    /\ ReportedTail = <<>> =>
        results.expected_shortfall_5_percent = results.var_5_percent
    /\ ~IsNaN(results.expected_shortfall_5_percent)

\* C17: the expected shortfall reported is the mean of the final returns at
\* or below var_5_percent, it is var_5_percent when there is no such return,
\* and it is never NaN.
C17_ExpectedShortfall ==
    (Analyzed /\ "expected_shortfall_5_percent" \in DOMAIN results) =>
        ShortfallDefined

\* the same for outcome sets of finite values only
ExpectedShortfallWhenFinite ==
    (Analyzed /\ "expected_shortfall_5_percent" \in DOMAIN results
        /\ AllFinite(returns)) =>
        (ShortfallDefined /\ ReportedTail # <<>>)

\* C18: for a batch of K >= 1 runs the expected shortfall reported is not
\* above the var_5_percent reported.
C18_ShortfallBelowVar ==
    (Analyzed /\ num_simulations >= 1) =>
        QLe(results.expected_shortfall_5_percent, results.var_5_percent)

\* the same for outcome sets of finite values only
ShortfallBelowVarWhenFinite ==
    (Analyzed /\ num_simulations >= 1 /\ AllFinite(returns)) =>
        QLe(results.expected_shortfall_5_percent, results.var_5_percent)


\* C19: an error raised inside the statistics stage reaches main as an
\* error: main never goes on with a dict returned in its place.
C19_ErrorsPropagate ==
    Analyzed => ~AnalysisRaises(QArray(result.final_returns))


(***************************************************************************)
(* Drawdown tracking of a run.                                             *)
(***************************************************************************)
\* m is the maximum of c[1..j]: one of its entries, none above it
IsMaxOfPrefix(m, c, j) ==
    /\ \E n \in 1..j : c[n] = m
    /\ \A n \in 1..j : FLe(c[n], m)

\* m is the minimum of d: one of its entries, none below it
IsMinOf(m, d) ==
    /\ \E n \in 1..Len(d) : d[n] = m
    /\ \A n \in 1..Len(d) : FLe(m, d[n])

\* the contract of drawdown tracking for the curve c and the stored md
DrawdownTracked(c, md) ==
    LET running_max == MaximumAccumulate(c)
        drawdown == Drawdown(c, running_max)
    IN  /\ \A j \in 1..Len(c) : IsMaxOfPrefix(running_max[j], c, j)
        /\ \A j \in 1..(Len(c) - 1) : FLe(running_max[j], running_max[j + 1])
        /\ \A j \in 1..Len(c) : FLe(drawdown[j], Zero)
        /\ IsMinOf(md, drawdown)

\* C20: for every run, running_max[j] is the maximum of the curve up to j,
\* running_max never decreases, every drawdown is <= 0 and max_drawdown is
\* the minimum of the drawdowns.
C20_DrawdownTracking ==
    RunStored =>
        \A r \in 1..i : DrawdownTracked(equity_curves[r], max_drawdowns[r])

\* the same for outcome sets of finite values only
DrawdownTrackingWhenFinite ==
    (RunStored /\ AllFinite(returns)) =>
        \A r \in 1..i : DrawdownTracked(equity_curves[r], max_drawdowns[r])


RECURSIVE ForwardPass(_, _, _, _)
\* one pass over c from entry j on, keeping the running peak and the running
\* minimum of (current value - peak), with float64 maximum and minimum
ForwardPass(c, j, peak, lowest) ==
    IF j > Len(c) THEN lowest
    ELSE LET p == FMaximum(peak, c[j])
         IN  ForwardPass(c, j + 1, p, FMinimum(lowest, FSub(c[j], p)))

\* the pass started with the peak at the first entry of the curve
SinglePassDrawdown(c) == ForwardPass(c, 2, c[1], FSub(c[1], c[1]))

\* C21: the max_drawdown stored for every run, computed from the
\* running-maximum and drawdown arrays, equals the result of the single
\* forward pass over the run's equity curve.
C21_SinglePassEquivalent ==
    RunStored =>
        \A r \in 1..i : max_drawdowns[r] = SinglePassDrawdown(equity_curves[r])

C21_Witness ==
    /\ RunStored
    /\ equity_curves[1] = <<Fin(0), Fin(2), Fin(1)>>
    /\ max_drawdowns[1] = Fin(-1)
    /\ SinglePassDrawdown(equity_curves[1]) = Fin(-1)

\* min(0, x) as np.minimum computes it
MinZero(x) == FMinimum(Zero, x)

\* the drawdown of the run is at least as deep as its final loss and the
\* running maximum never goes below 0
DeepAsLoss(c, fr, md) ==
    /\ FLe(md, MinZero(fr))
    /\ \A j \in 1..Len(c) : FLe(Zero, MaximumAccumulate(c)[j])

\* C29: for every run, max_drawdown <= min(0, final return) and
\* running_max[j] >= 0 for every j.
C29_DrawdownCoversLoss ==
    RunStored =>
        \A r \in 1..i :
            DeepAsLoss(equity_curves[r], final_returns[r], max_drawdowns[r])

\* the same for outcome sets of finite values only
DrawdownCoversLossWhenFinite ==
    (RunStored /\ AllFinite(returns)) =>
        \A r \in 1..i :
            DeepAsLoss(equity_curves[r], final_returns[r], max_drawdowns[r])


\* the keys of the dict other than the three threshold probabilities
OtherKeys ==
    {"final_return_mean", "final_return_median", "final_return_std",
     "final_return_5th_percentile", "final_return_95th_percentile",
     "prob_positive_return", "max_drawdown_mean", "max_drawdown_median",
     "max_drawdown_std", "max_drawdown_5th_percentile",
     "max_drawdown_95th_percentile", "var_5_percent", "var_1_percent",
     "expected_shortfall_5_percent"}

RiskKeys ==
    {"prob_drawdown_gt_3R", "prob_drawdown_gt_5R", "prob_drawdown_gt_10R"}

\* the mean of the historical returns is above 0
MeanPositive == QLt(QFin(0, 1), QDivCount(Q(SumOf(returns)), Len(returns)))

\* the three keys are in the dict exactly when the mean is above 0, and
\* every other statistic is in it either way
RiskKeysFollowMean ==
    /\ OtherKeys \subseteq DOMAIN results
    /\ IF MeanPositive
       THEN RiskKeys \subseteq DOMAIN results
       ELSE RiskKeys \cap DOMAIN results = {}

\* C30: the dict analyze_simulation_results returns holds the three
\* drawdown-threshold probabilities exactly when the mean of the historical
\* returns is > 0, and every other statistic in both cases.
C30_RiskKeysWhenMeanPositive == Analyzed => RiskKeysFollowMean

\* the same for batches of at least one run
RiskKeysWhenRunsExist ==
    (Analyzed /\ num_simulations >= 1) => RiskKeysFollowMean


(***************************************************************************)
(* The trading strategy (user_data/strategies/donchian_atr.py): the         *)
(* callbacks the bot calls on DonchianATRTrend.  Prices, stakes and ratios  *)
(* are float64 values, modelled by the exact fractions of the statistics.   *)
(***************************************************************************)
\* a / b in float64: x / 0 is inf with the sign of x, 0 / 0 and inf / inf NaN
QDiv(a, b) ==
    IF IsNaN(a) \/ IsNaN(b) THEN QNaN
    ELSE IF b.k = "inf"
         THEN (IF a.k = "inf" THEN QNaN ELSE QFin(0, 1))
    ELSE IF b.v = 0
         THEN (IF Sign(a) = 0 THEN QNaN ELSE QInf(Sign(a)))
    ELSE IF a.k = "inf" THEN QInf(Sign(a) * Sign(b))
    ELSE QFin(Sign(b) * a.v * b.d, a.d * Abs(b.v))

\* class attributes of DonchianATRTrend
stoploss == QFin(-1, 20)
atr_mult == QFin(3, 2)
r_usd == QFin(5, 1)
max_daily_loss_r == QFin(2, 1)

\* the deepest stoploss ratio custom_stoploss lets through: -0.10
MaxLossRatio == QFin(-1, 10)

\* ATR values of the latest candle: NaN, zero, negative, a price range, +inf
AtrValues == {QNaN, QFin(0, 1), QFin(-1, 1), QFin(2, 1), QInf(1)}

\* largest analyzed dataframe the data provider holds
MaxAtrRows == 2

\* the data provider's answers: no dataframe, an exception (no provider or
\* no atr column), or a dataframe of 0..MaxAtrRows candles with their ATR
AnalyzedFrames ==
    {[kind |-> "None", rows |-> <<>>], [kind |-> "Raises", rows |-> <<>>]}
        \cup {[kind |-> "DataFrame", rows |-> r] :
                r \in UNION {[1..n -> [atr : AtrValues]] : n \in 0..MaxAtrRows}}

\* dataframe is None or len(dataframe) == 0
NoDataframe(frame) == frame.kind = "None" \/ Len(frame.rows) = 0

\* dataframe['atr'].iloc[-1]
LatestAtr(frame) == frame.rows[Len(frame.rows)].atr

\* a zero ATR let through
IsNaOnly(a) == IsNaN(a)

\* pd.isna(latest_atr) or latest_atr <= 0
InvalidAtr(a) == IsNaN(a) \/ QLe(a, QFin(0, 1))

\* latest_atr * self.atr_mult
StopDistance(latest_atr) == QMul(latest_atr, atr_mult)

\* self.r_usd / stop_distance
CalculatedStake(latest_atr) == QDiv(r_usd, StopDistance(latest_atr))

\* `if min_stake`: None and 0.0 are false
Truthy(min_stake) == min_stake # None /\ min_stake # QFin(0, 1)

\* the stake with the upper limit not applied
LimitedFromBelow(stake, min_stake, max_stake) ==
    IF Truthy(min_stake) /\ QLt(stake, min_stake) THEN min_stake ELSE stake

\* the wallet limits applied to the calculated stake, max_stake first
Limited(stake, min_stake, max_stake) ==
    IF QLt(max_stake, stake) THEN max_stake
    ELSE IF Truthy(min_stake) /\ QLt(stake, min_stake) THEN min_stake
    ELSE stake

\* what custom_stake_amount returns
StakeAmount(frame, proposed_stake, min_stake, max_stake) ==
    IF frame.kind = "Raises" THEN proposed_stake
    ELSE IF NoDataframe(frame) THEN proposed_stake
    ELSE IF InvalidAtr(LatestAtr(frame)) THEN proposed_stake
    ELSE Limited(CalculatedStake(LatestAtr(frame)), min_stake, max_stake)


\* entry_rate - atr_stop_distance
AtrStopLevel(open_rate, latest_atr) == QSub(open_rate, StopDistance(latest_atr))

\* (atr_stop_level - current_rate) / current_rate
StopLossRatio(open_rate, latest_atr, current_rate) ==
    QDiv(QSub(AtrStopLevel(open_rate, latest_atr), current_rate), current_rate)

\* the ratio returned with no floor
Uncapped(ratio) == ratio

\* max(stop_loss_ratio, -0.10): the second argument when it is the greater
Capped(ratio) == IF QLt(ratio, MaxLossRatio) THEN MaxLossRatio ELSE ratio

\* what custom_stoploss returns
StoplossValue(frame, open_rate, current_rate) ==
    IF frame.kind = "Raises" THEN stoploss
    ELSE IF NoDataframe(frame) THEN stoploss
    ELSE IF InvalidAtr(LatestAtr(frame)) THEN stoploss
    ELSE Capped(StopLossRatio(open_rate, LatestAtr(frame), current_rate))

\* hasattr(self, 'daily_loss_r') and self.daily_loss_r >= self.max_daily_loss_r
DailyLossLimitReached ==
    daily_loss_r # None /\ QLe(max_daily_loss_r, daily_loss_r)

\* (latest_atr / rate) * 100 > 5.0: logged, the entry is still confirmed
HighVolatility(latest_atr, rate) ==
    QLt(QFin(5, 1), QMul(QDiv(latest_atr, rate), QFin(100, 1)))

\* what confirm_trade_entry returns once the daily loss check is passed
Confirmed(frame, rate) ==
    /\ frame.kind # "Raises"
    /\ ~NoDataframe(frame)
    /\ ~InvalidAtr(LatestAtr(frame))

\* the arguments the bot passes
ProposedStakes == {QFin(7, 1)}
MinStakes == {None, QFin(0, 1), QFin(2, 1), QFin(20, 1)}
MaxStakes == {QFin(1, 1), QFin(10, 1)}
OpenRates == {QFin(100, 1)}
CurrentRates ==
    {QFin(50, 1), QFin(90, 1), QFin(97, 1), QFin(100, 1), QFin(110, 1)}
EntryRates == {QFin(10, 1), QFin(100, 1)}

\* largest loss, in R, the closed trades of a day add up to
MaxDayLoss == 3

\* the script is not running
ScriptIdle ==
    /\ pc = "idle"
    /\ df = <<>>
    /\ num_simulations = 0
    /\ trades_arg = <<>>
    /\ returns = <<>>
    /\ num_trades_per_sim = 0
    /\ i = 0
    /\ sim_returns = <<>>
    /\ final_returns = <<>>
    /\ max_drawdowns = <<>>
    /\ equity_curves = <<>>
    /\ writes = <<>>
    /\ rng_pos = 0
    /\ result = <<>>
    /\ invocation = 1
    /\ prev = <<>>
    /\ results = <<>>
    /\ probabilities = <<>>

\* the strategy loaded by the bot: the class defines no daily_loss_r
InitStrategy ==
    /\ ScriptIdle
    /\ analyzed \in AnalyzedFrames
    /\ daily_loss_r = None
    /\ day_loss = 0
    /\ call = [name |-> "none"]
    /\ ret = None
    /\ dataframe = <<>>
    /\ stage = "callbacks"

\* the bot asks for the stake of an entry
CustomStakeAmount ==
    /\ stage = "callbacks"
    /\ \E proposed_stake \in ProposedStakes, min_stake \in MinStakes,
          max_stake \in MaxStakes :
        /\ call' = [name |-> "custom_stake_amount",
                    proposed_stake |-> proposed_stake,
                    min_stake |-> min_stake,
                    max_stake |-> max_stake]
        /\ ret' = StakeAmount(analyzed, proposed_stake, min_stake, max_stake)
    /\ UNCHANGED <<script_vars, analyzed, daily_loss_r, day_loss, dataframe,
                   stage>>

\* the bot asks for the stoploss of an open trade
CustomStoploss ==
    /\ stage = "callbacks"
    /\ \E open_rate \in OpenRates, current_rate \in CurrentRates :
        /\ call' = [name |-> "custom_stoploss",
                    open_rate |-> open_rate,
                    current_rate |-> current_rate]
        /\ ret' = StoplossValue(analyzed, open_rate, current_rate)
    /\ UNCHANGED <<script_vars, analyzed, daily_loss_r, day_loss, dataframe,
                   stage>>

\* the bot asks whether to place an entry order
ConfirmTradeEntry ==
    /\ stage = "callbacks"
    /\ \E rate \in EntryRates :
        /\ call' = [name |-> "confirm_trade_entry", rate |-> rate]
        /\ ret' = [k |-> "bool",
                   v |-> IF DailyLossLimitReached THEN FALSE
                         ELSE Confirmed(analyzed, rate),
                   d |-> 1]
    /\ UNCHANGED <<script_vars, analyzed, daily_loss_r, day_loss, dataframe,
                   stage>>

\* a trade is closed at a loss of 1 R; no method of the strategy is called
\* for it and none assigns daily_loss_r
CloseTrade ==
    /\ stage = "callbacks"
    /\ day_loss < MaxDayLoss
    /\ day_loss' = day_loss + 1
    /\ UNCHANGED <<script_vars, analyzed, daily_loss_r, call, ret, dataframe,
                   stage>>

NextStrategy ==
    \/ CustomStakeAmount
    \/ CustomStoploss
    \/ ConfirmTradeEntry
    \/ CloseTrade

SpecStrategy == InitStrategy /\ [][NextStrategy]_vars


(***************************************************************************)
(* The strategy callbacks.                                                 *)
(***************************************************************************)
\* the analyzed dataframe is non-empty and its latest ATR is a number > 0
ValidAtr ==
    /\ analyzed.kind = "DataFrame"
    /\ Len(analyzed.rows) >= 1
    /\ QLt(QFin(0, 1), analyzed.rows[Len(analyzed.rows)].atr)

\* r_usd / (latest ATR * atr_mult), with r_usd = 5 and atr_mult = 1.5
ExpectedStake ==
    QDiv(QFin(5, 1), QMul(analyzed.rows[Len(analyzed.rows)].atr, QFin(3, 2)))

\* C22: with a latest ATR > 0, custom_stake_amount returns
\* r_usd / (ATR * atr_mult), max_stake when that is above max_stake, and
\* min_stake when min_stake is given and that is below min_stake; with
\* min_stake <= max_stake the result lies in [min_stake, max_stake].
C22_StakeClamped ==
    (call.name = "custom_stake_amount" /\ ValidAtr) =>
        /\ ret = IF QLt(call.max_stake, ExpectedStake) THEN call.max_stake
                 ELSE IF call.min_stake # None
                         /\ QLt(ExpectedStake, call.min_stake)
                      THEN call.min_stake
                 ELSE ExpectedStake
        /\ QLe(ret, call.max_stake) \/ QLt(call.max_stake, call.min_stake)
        /\ (call.min_stake # None /\ QLe(call.min_stake, call.max_stake)) =>
                QLe(call.min_stake, ret)

C22_Witness ==
    /\ call.name = "custom_stake_amount"
    /\ ValidAtr
    /\ ExpectedStake = QFin(5, 3)
    /\ call.max_stake = QFin(1, 1)
    /\ call.min_stake = QFin(0, 1)
    /\ ret = QFin(1, 1)

\* C23: custom_stake_amount returns proposed_stake unchanged when there is
\* no analyzed dataframe (None or empty), when the latest ATR is NaN, zero
\* or negative, and when an exception occurs.
C23_StakeFallback ==
    (call.name = "custom_stake_amount" /\ ~ValidAtr) =>
        ret = call.proposed_stake

C23_Witness ==
    /\ call.name = "custom_stake_amount"
    /\ analyzed.kind = "DataFrame"
    /\ Len(analyzed.rows) = 2
    /\ analyzed.rows[1].atr = QFin(2, 1)
    /\ analyzed.rows[2].atr = QFin(0, 1)
    /\ ret = call.proposed_stake

\* (open_rate - latest ATR * atr_mult - current_rate) / current_rate
ExpectedRatio ==
    QDiv(QSub(QSub(call.open_rate,
                   QMul(analyzed.rows[Len(analyzed.rows)].atr, QFin(3, 2))),
              call.current_rate),
         call.current_rate)

\* C24: with a latest ATR > 0, custom_stoploss returns the larger of
\* (open_rate - ATR * atr_mult - current_rate) / current_rate and -0.10; on
\* every path the ratio returned is >= -0.10.
C24_StoplossFloor ==
    call.name = "custom_stoploss" =>
        /\ ValidAtr =>
            ret = IF QLe(QFin(-1, 10), ExpectedRatio) THEN ExpectedRatio
                  ELSE QFin(-1, 10)
        /\ QLe(QFin(-1, 10), ret)

C24_Witness ==
    /\ call.name = "custom_stoploss"
    /\ ValidAtr
    /\ ExpectedRatio = QFin(-13, 110)
    /\ ret = QFin(-1, 10)

\* C25: the ratio custom_stoploss returns is negative for every open trade,
\* every positive current_rate and every ATR.
C25_StoplossNegative ==
    call.name = "custom_stoploss" => QLt(ret, QFin(0, 1))

\* the loss of the trades closed today has reached max_daily_loss_r = 2
DailyLossReached == day_loss >= 2

\* C26: confirm_trade_entry returns False when there is no dataframe, when
\* the latest ATR is NaN or <= 0, when an exception occurs and when the
\* accumulated daily loss has reached max_daily_loss_r; otherwise it returns
\* True, a high ATR included.
C26_EntryConfirmation ==
    call.name = "confirm_trade_entry" =>
        ret.v = (ValidAtr /\ ~DailyLossReached)

\* the same without the daily loss limit
EntryFollowsAtr ==
    call.name = "confirm_trade_entry" => ret.v = ValidAtr

\* an entry confirmed although the ATR is above 5% of the rate
HighVolatilityConfirmed ==
    /\ call.name = "confirm_trade_entry"
    /\ ValidAtr
    /\ HighVolatility(LatestAtr(analyzed), call.rate)
    /\ ret.v = TRUE


(***************************************************************************)
(* The indicators and the entry signal of the strategy.  The dataframe is  *)
(* a sequence of candles; the TA-Lib columns (ema, rsi, macd, macdsignal)   *)
(* come from a library outside the repository and may hold any value.      *)
(***************************************************************************)
\* window of the entry channel, of the exit channel and of volume_sma,
\* scaled down from 20, 10 and 20 candles
don_len_entry == 2
don_len_exit == 2
volume_len == 2
\* longest dataframe
MaxCandles == 3

\* high, low and close of a candle: low <= close <= high
Prices ==
    {[high |-> QFin(1, 1), low |-> QFin(1, 1), close |-> QFin(1, 1)],
     [high |-> QFin(2, 1), low |-> QFin(1, 1), close |-> QFin(2, 1)],
     [high |-> QFin(2, 1), low |-> QFin(2, 1), close |-> QFin(2, 1)]}

Volumes == {QFin(1, 1), QFin(3, 1)}

Candles ==
    {p @@ [volume |-> v] : p \in Prices, v \in Volumes}

CandleFrames == UNION {[1..n -> Candles] : n \in 0..MaxCandles}

\* what TA-Lib may put on a row: values that pass every entry filter, an
\* EMA above the close, an RSI of 75, a MACD on its signal line, and NaN
\* before the indicators have warmed up
TaRows ==
    {[ema |-> QFin(0, 1), rsi |-> QFin(50, 1),
      macd |-> QFin(1, 1), macdsignal |-> QFin(0, 1)],
     [ema |-> QFin(5, 1), rsi |-> QFin(50, 1),
      macd |-> QFin(1, 1), macdsignal |-> QFin(0, 1)],
     [ema |-> QFin(0, 1), rsi |-> QFin(75, 1),
      macd |-> QFin(1, 1), macdsignal |-> QFin(0, 1)],
     [ema |-> QFin(0, 1), rsi |-> QFin(50, 1),
      macd |-> QFin(0, 1), macdsignal |-> QFin(0, 1)],
     [ema |-> QNaN, rsi |-> QNaN, macd |-> QNaN, macdsignal |-> QNaN]}

\* the larger and the smaller of two numbers
QMax(a, b) == IF QLt(a, b) THEN b ELSE a
QMin(a, b) == IF QLt(b, a) THEN b ELSE a

RECURSIVE MaxOver(_, _, _)
\* the largest of col[from..to], from <= to
MaxOver(col, from, to) ==
    IF from = to THEN col[to] ELSE QMax(MaxOver(col, from, to - 1), col[to])

RECURSIVE MinOver(_, _, _)
\* the smallest of col[from..to], from <= to
MinOver(col, from, to) ==
    IF from = to THEN col[to] ELSE QMin(MinOver(col, from, to - 1), col[to])

RECURSIVE SumOver(_, _, _)
\* the sum of col[from..to], from <= to
SumOver(col, from, to) ==
    IF from = to THEN col[to] ELSE QAdd(SumOver(col, from, to - 1), col[to])

\* the window ending one row early
RollingMaxBefore(col, j, window) ==
    IF j <= window THEN QNaN ELSE MaxOver(col, j - window, j - 1)

\* col.rolling(window).max() at row j: NaN until the window is full
RollingMax(col, j, window) ==
    IF j < window THEN QNaN ELSE MaxOver(col, j - window + 1, j)

\* col.rolling(window).min() at row j
RollingMin(col, j, window) ==
    IF j < window THEN QNaN ELSE MinOver(col, j - window + 1, j)

\* col.rolling(window).mean() at row j
RollingMean(col, j, window) ==
    IF j < window THEN QNaN
    ELSE QDivCount(SumOver(col, j - window + 1, j), window)

\* one column of the dataframe
Col(frame, name) == [j \in 1..Len(frame) |-> frame[j][name]]

\* the columns populate_indicators adds to row j, ta being TA-Lib's output
Indicators(frame, j, ta) ==
    LET upper_exit == RollingMax(Col(frame, "high"), j, don_len_exit)
        lower_exit == RollingMin(Col(frame, "low"), j, don_len_exit)
    IN  [don_upper_entry |-> RollingMax(Col(frame, "high"), j, don_len_entry),
         don_lower_entry |-> RollingMin(Col(frame, "low"), j, don_len_entry),
         don_upper_exit |-> upper_exit,
         don_lower_exit |-> lower_exit,
         don_mid_exit |-> QDivCount(QAdd(upper_exit, lower_exit), 2),
         ema |-> ta[j].ema,
         rsi |-> ta[j].rsi,
         macd |-> ta[j].macd,
         macdsignal |-> ta[j].macdsignal,
         volume_sma |-> RollingMean(Col(frame, "volume"), j, volume_len)]

\* col.shift(1) at row j
Shift(frame, name, j) == IF j = 1 THEN QNaN ELSE frame[j - 1][name]

\* the breakout taken against the row's own channel
BreakoutUnshifted(frame, j) == QLe(frame[j].don_upper_entry, frame[j].close)

\* close > don_upper_entry.shift(1)
Breakout(frame, j) == QLt(Shift(frame, "don_upper_entry", j), frame[j].close)

\* the five conditions of an entry, and-ed
AllConditions(frame, j) ==
    /\ Breakout(frame, j)
    /\ QLt(frame[j].ema, frame[j].close)
    /\ QLt(frame[j].volume_sma, frame[j].volume)
    /\ QLt(frame[j].rsi, QFin(75, 1))
    /\ QLt(frame[j].macdsignal, frame[j].macd)

\* the strategy is given the candles of a pair
InitSignals ==
    /\ ScriptIdle
    /\ analyzed = [kind |-> "None", rows |-> <<>>]
    /\ daily_loss_r = None
    /\ day_loss = 0
    /\ call = [name |-> "none"]
    /\ ret = None
    /\ dataframe \in CandleFrames
    /\ stage = "candles"

\* populate_indicators(dataframe, metadata)
PopulateIndicators ==
    /\ stage = "candles"
    /\ stage' = "indicators"
    /\ \E ta \in [1..Len(dataframe) -> TaRows] :
        dataframe' = [j \in 1..Len(dataframe) |->
                        dataframe[j] @@ Indicators(dataframe, j, ta)]
    /\ UNCHANGED <<script_vars, analyzed, daily_loss_r, day_loss, call, ret>>

\* populate_entry_trend(dataframe, metadata): enter_long is set to 1 on the
\* rows selected and left unset (NaN) on the others
PopulateEntryTrend ==
    /\ stage = "indicators"
    /\ stage' = "entry"
    /\ dataframe' = [j \in 1..Len(dataframe) |->
                        dataframe[j] @@
                        [enter_long |-> IF AllConditions(dataframe, j)
                                        THEN QFin(1, 1) ELSE QNaN]]
    /\ UNCHANGED <<script_vars, analyzed, daily_loss_r, day_loss, call, ret>>

NextSignals ==
    \/ PopulateIndicators
    \/ PopulateEntryTrend

SpecSignals == InitSignals /\ [][NextSignals]_vars


(***************************************************************************)
(* The channels and the entry signal.                                      *)
(***************************************************************************)
\* populate_indicators has run
Populated == stage \in {"indicators", "entry"}

\* column name of row j holds a value
Defined(j, name) == ~IsNaN(dataframe[j][name])

\* C27: after populate_indicators, on every row where the channel value is
\* defined, don_upper_entry >= high, don_lower_entry <= low and
\* don_lower_exit <= don_mid_exit <= don_upper_exit.
C27_ChannelsEnclose ==
    Populated =>
        \A j \in 1..Len(dataframe) :
            /\ Defined(j, "don_upper_entry") =>
                    QLe(dataframe[j].high, dataframe[j].don_upper_entry)
            /\ Defined(j, "don_lower_entry") =>
                    QLe(dataframe[j].don_lower_entry, dataframe[j].low)
            /\ Defined(j, "don_mid_exit") =>
                    /\ QLe(dataframe[j].don_lower_exit,
                           dataframe[j].don_mid_exit)
                    /\ QLe(dataframe[j].don_mid_exit,
                           dataframe[j].don_upper_exit)

\* a row below the channel's top, another above its bottom, the middle
\* strictly inside
C27_Witness ==
    /\ Populated
    /\ \E j \in 1..Len(dataframe) :
        /\ Defined(j, "don_upper_entry")
        /\ QLt(dataframe[j].high, dataframe[j].don_upper_entry)
    /\ \E j \in 1..Len(dataframe) :
        /\ Defined(j, "don_lower_entry")
        /\ QLt(dataframe[j].don_lower_entry, dataframe[j].low)
    /\ \E j \in 1..Len(dataframe) :
        /\ Defined(j, "don_mid_exit")
        /\ QLt(dataframe[j].don_lower_exit, dataframe[j].don_mid_exit)
        /\ QLt(dataframe[j].don_mid_exit, dataframe[j].don_upper_exit)

\* the five conditions on row j, read from the columns of the dataframe
FiveConditions(j) ==
    /\ j > 1
    /\ QLt(dataframe[j - 1].don_upper_entry, dataframe[j].close)
    /\ QLt(dataframe[j].ema, dataframe[j].close)
    /\ QLt(dataframe[j].volume_sma, dataframe[j].volume)
    /\ QLt(dataframe[j].rsi, QFin(75, 1))
    /\ QLt(dataframe[j].macdsignal, dataframe[j].macd)

\* C28: after populate_entry_trend enter_long is 1 or unset, and it is 1 on
\* exactly the rows where close is above the previous row's don_upper_entry,
\* close is above the EMA, volume is above volume_sma, RSI is below 75 and
\* MACD is above its signal line.
C28_EntryOnBreakout ==
    stage = "entry" =>
        \A j \in 1..Len(dataframe) :
            /\ dataframe[j].enter_long \in {QFin(1, 1), QNaN}
            /\ (dataframe[j].enter_long = QFin(1, 1)) = FiveConditions(j)

\* one row entered, another left unset although its close reaches the
\* channel's top
C28_Witness ==
    /\ stage = "entry"
    /\ \E j \in 1..Len(dataframe) : dataframe[j].enter_long = QFin(1, 1)
    /\ \E j \in 1..Len(dataframe) :
        /\ dataframe[j].enter_long = QNaN
        /\ dataframe[j].close = dataframe[j].don_upper_entry

=============================================================================
